---- MODULE Spec2Model ----
(***************************************************************************)
(* Model of ctxbuilder: a (type, optional name)-keyed heterogeneous store  *)
(* (MainContext), contexts derived from it (SubContext) and the Entry view *)
(* (src/src/context.rs, src/src/entry.rs, src/src/impls.rs).               *)
(***************************************************************************)
EXTENDS Integers, FiniteSets, TLC

(* ---------------------------- bounds ----------------------------------- *)
\* the uuids a run may draw are 1..MaxVal
MaxVal == 2
\* operations in one run
MaxOps == 5

(* ---------------------------- data model ------------------------------- *)
\* TypeId::of::<T>() for the types the tests store
Types == {"PetType", "Uuid"}
\* Option<&'static str>: NoName is None, the others are Some(name)
NoName == "None"
Names == {"person", "pet"}
NameOpts == Names \cup {NoName}
\* the names a type is stored under: a Uuid under every name and under none (the
\* identifiers of the builders), a PetType under its type alone (ctx.insert(PetType::Cat))
NamesOf(ty) == IF ty = "Uuid" THEN NameOpts ELSE {NoName}
\* (TypeId, Option<&'static str>)
Keys == {<<ty, n>> \in Types \X NameOpts : n \in NamesOf(ty)}
\* enum PetType { Dog, Cat }
Dog == 1
Cat == 2
\* the values of type ty; the nil uuid Uuid::default() is 1
ValuesOf(ty) ==
    IF ty = "PetType" THEN {Dog, Cat} ELSE IF ty = "Uuid" THEN 1..MaxVal ELSE {}
Values == UNION {ValuesOf(ty) : ty \in Types}
\* Option<T> / Option<&T>: None is 0, Some(v) is v
None == 0
\* Box<dyn Any + Send + Sync>: the value together with its dynamic type
Box(ty, v) == [ty |-> ty, val |-> v]
\* no slot for the key in the HashMap
Absent == [ty |-> "absent", val |-> 0]
Slots == {Box(ty, v) : ty \in Types, v \in Values}
\* AnyMap
EmptyMap == [k \in Keys |-> Absent]
\* T::default()
DefaultVal == 1
\* the closures given to and_modify on an Entry<T>: FnOnce(&mut T)
Modifiers(ty) == [ValuesOf(ty) -> ValuesOf(ty)]

\* context identities: the MainContext, and two SubContexts borrowing it (siblings)
Main == 0
SubIds == {1, 2}
Ctxs == {Main} \cup SubIds

VARIABLES
    root,      \* MainContext.map
    subs,      \* SubContext.map of every derived context
    alive,     \* which derived contexts exist (borrow the root)
    entry,     \* the Entry view not yet consumed, or NoEntry
    ret,       \* what the last operation returned (an Option)
    calls,     \* how many times the last operation called its closure
    panicked,  \* an expect() on a downcast failed
    last,      \* the name of the last operation
    resolved,  \* history: per context, what or_insert_with last returned at Watched
    inserted,  \* history: insert was called on the derived context
    lineage,   \* history: what the resolutions of Watched in the whole lineage returned
    track,     \* which history is kept in this run: "none", "resolved", "inserted", "lineage"
    ops        \* operations so far

vars == <<root, subs, alive, entry, ret, calls, panicked, last, resolved, inserted, lineage,
          track, ops>>

\* Entry { main, inner }: inner is the cursor into the map of ctx at (ty, name);
\* chained records that and_modify produced this view
NoEntry == [ctx |-> -1, ty |-> "absent", name |-> NoName, main |-> None, chained |-> FALSE]

\* downcast_ref / downcast of a slot to T
Downcast(slot, ty) == IF slot.ty = ty THEN slot.val ELSE None

\* HashMap::get(&key).and_then(downcast_ref)
MapGet(map, ty, n) ==
    IF map[<<ty, n>>] = Absent THEN None ELSE Downcast(map[<<ty, n>>], ty)

\* an insert whose key is made from another type than the value's
MapInsertOtherType(map, ty, n, v) ==
    [map EXCEPT ![<<IF ty = "Uuid" THEN "PetType" ELSE "Uuid", NoName>>] = Box(ty, v)]

\* an insert that drops the name from the key
MapInsertUnnamed(map, ty, n, v) == [map EXCEPT ![<<ty, NoName>>] = Box(ty, v)]

\* HashMap::insert(key, Box::new(val))
MapInsert(map, ty, n, v) == [map EXCEPT ![<<ty, n>>] = Box(ty, v)]

\* an insert that returns the root's value when it displaces nothing
DisplacedOrInherited(map, ty, n) ==
    IF map[<<ty, n>>] = Absent
    THEN MapGet(root, ty, n)
    ELSE Downcast(map[<<ty, n>>], ty)

\* an insert that loses the displaced box
DisplacedLost(map, ty, n) == None

\* what insert returns: the displaced box, downcast to T
Displaced(map, ty, n) ==
    IF map[<<ty, n>>] = Absent THEN None ELSE Downcast(map[<<ty, n>>], ty)

\* MainContext::get / get_named
MainGet(ty, n) == MapGet(root, ty, n)

\* a get that forgets the or_else: the local store only
SubGetLocalOnly(s, ty, n) == MapGet(subs[s], ty, n)

\* SubContext::get / get_named: the local store, or else the root
SubGet(s, ty, n) ==
    IF MapGet(subs[s], ty, n) # None THEN MapGet(subs[s], ty, n) ELSE MainGet(ty, n)

\* the store an operation on context c writes to
CtxMap(c) == IF c = Main THEN root ELSE subs[c]

\* derived contexts that share one local map
SetMapShared(c, m) ==
    IF c = Main
    THEN root' = m /\ subs' = subs
    ELSE subs' = [s \in SubIds |-> IF alive[s] THEN m ELSE subs[s]] /\ root' = root

\* a cursor taken into the root's map instead of the local one
SetMapThrough(c, m) == root' = m /\ subs' = subs

\* the map the cursor of an Entry of context c writes: self.map
SetMap(c, m) ==
    IF c = Main
    THEN root' = m /\ subs' = subs
    ELSE subs' = [subs EXCEPT ![c] = m] /\ root' = root

\* &mut self on c: no Entry borrows c; the root cannot be borrowed mutably
\* while a SubContext holds &MainContext
CanMut(c) ==
    /\ entry.ctx # c
    /\ IF c = Main THEN \A s \in SubIds : ~alive[s] ELSE alive[c]

\* &self on c
CanRead(c) == entry.ctx # c /\ (IF c = Main THEN TRUE ELSE alive[c])

\* the key whose resolutions are followed: the tests' entry_named("person") of a Uuid
Watched == <<"Uuid", "person">>
\* history of the watched key in one context: val is what the last
\* entry(..).or_insert_with(..) since the last insert returned, again tells that
\* there were two or more of them, mod that and_modify was called after the last
NoRes == [val |-> None, again |-> FALSE, mod |-> FALSE]
Follows(ty, n) == track = "resolved" /\ <<ty, n>> = Watched
Forget(c, ty, n) ==
    resolved' = IF Follows(ty, n) THEN [resolved EXCEPT ![c] = NoRes] ELSE resolved
ForgetAll(c) ==
    resolved' = IF track = "resolved" THEN [resolved EXCEPT ![c] = NoRes] ELSE resolved
Record(c, ty, n, v) ==
    resolved' = IF Follows(ty, n)
                THEN [resolved EXCEPT ![c] =
                         [val |-> v, again |-> @.val # None, mod |-> FALSE]]
                ELSE resolved
Touch(c, ty, n) ==
    resolved' = IF Follows(ty, n) /\ resolved[c].val # None
                THEN [resolved EXCEPT ![c] = [@ EXCEPT !.mod = TRUE]] ELSE resolved
MarkInserted(s, b) ==
    inserted' = IF track = "inserted" THEN [inserted EXCEPT ![s] = b] ELSE inserted

\* history of the watched key over the root and its derived contexts: any is what
\* the last entry(..).or_insert_with(..) on any of them returned; shared is what the
\* last one returned that was made while the root held the key, on the root or on
\* a derived context not in written, since the root's slot was last written by
\* insert or and_modify; written are the derived contexts on which insert or
\* and_modify was called at the key
NoLineage == [any |-> None, shared |-> None, written |-> {}]
Traces(ty, n) == track = "lineage" /\ <<ty, n>> = Watched
Wrote(c, ty, n) ==
    lineage' = IF Traces(ty, n)
               THEN IF c = Main
                    THEN [lineage EXCEPT !.shared = None]
                    ELSE [lineage EXCEPT !.written = @ \cup {c}]
               ELSE lineage
Unwrite(s) ==
    lineage' = IF track = "lineage"
               THEN [lineage EXCEPT !.written = @ \ {s}] ELSE lineage
Resolved(c, ty, n, v) ==
    lineage' = IF Traces(ty, n)
               THEN [lineage EXCEPT
                        !.any = v,
                        !.shared = IF root'[<<ty, n>>] # Absent /\ c \notin lineage.written
                                   THEN v ELSE @]
               ELSE lineage

Tick == ops < MaxOps /\ ops' = ops + 1 /\ ~panicked /\ track' = track

TypeOK ==
    /\ root \in [Keys -> Slots \cup {Absent}]
    /\ subs \in [SubIds -> [Keys -> Slots \cup {Absent}]]
    /\ alive \in [SubIds -> BOOLEAN]
    /\ ret \in Values \cup {None}
    /\ calls \in 0..1
    /\ panicked \in BOOLEAN
    /\ entry = NoEntry \/ (entry.ctx \in Ctxs /\ <<entry.ty, entry.name>> \in Keys)
    /\ ops \in 0..MaxOps

Start ==
    /\ root = EmptyMap
    /\ subs = [s \in SubIds |-> EmptyMap]
    /\ alive = [s \in SubIds |-> FALSE]
    /\ entry = NoEntry
    /\ ret = None
    /\ calls = 0
    /\ panicked = FALSE
    /\ last = "new"
    /\ resolved = [c \in Ctxs |-> NoRes]
    /\ inserted = [s \in SubIds |-> FALSE]
    /\ lineage = NoLineage
    /\ ops = 0

(* ---------------------------- Entry ------------------------------------ *)
\* Entry::new(main, inner) as MainContext::entry / entry_named builds it
MainEntryNew(ty, n) ==
    [ctx |-> Main, ty |-> ty, name |-> n, main |-> None, chained |-> FALSE]

\* a derived entry given the root's value of the type without the name
SubEntryNewUnnamed(s, ty, n) ==
    [ctx |-> s, ty |-> ty, name |-> n, main |-> MainGet(ty, NoName), chained |-> FALSE]

\* a derived entry that is not given the root's value
SubEntryNewNoMain(s, ty, n) ==
    [ctx |-> s, ty |-> ty, name |-> n, main |-> None, chained |-> FALSE]

\* Entry::new(main, inner) as SubContext::entry / entry_named builds it
SubEntryNew(s, ty, n) ==
    [ctx |-> s, ty |-> ty, name |-> n, main |-> MainGet(ty, n), chained |-> FALSE]

\* InnerEntry::Vacant(_) / InnerEntry::Occupied(_) for the cursor of e in map m
Vacant(e, m) == m[<<e.ty, e.name>>] = Absent

\* an or_insert on the cursor that hands out the default without storing it
InnerOrInsertNoStore(e, m, box) ==
    LET r == IF Vacant(e, m) THEN Downcast(box, e.ty) ELSE Downcast(m[<<e.ty, e.name>>], e.ty)
    IN  [map |-> m, ret |-> r, calls |-> 0, panic |-> r = None]

\* hash_map::Entry::or_insert(box).downcast_ref().expect(..) on the cursor of e
InnerOrInsert(e, m, box) ==
    LET m2 == IF Vacant(e, m) THEN [m EXCEPT ![<<e.ty, e.name>>] = box] ELSE m
        r == Downcast(m2[<<e.ty, e.name>>], e.ty)
    IN  [map |-> m2, ret |-> r, calls |-> 0, panic |-> r = None]

\* Entry::or_insert
EntryOrInsert(e, m, d) ==
    IF e.main # None /\ Vacant(e, m)
    THEN [map |-> m, ret |-> e.main, calls |-> 0, panic |-> FALSE]
    ELSE InnerOrInsert(e, m, Box(e.ty, d))

\* an or_insert_with that stores a newly made value over the one in the slot
EntryOrInsertWithFresh(e, m, v) ==
    [map |-> [m EXCEPT ![<<e.ty, e.name>>] = Box(e.ty, v)],
     ret |-> v, calls |-> 1, panic |-> FALSE]

\* an or_insert_with that makes the default before it looks at the slot
EntryOrInsertWithEager(e, m, v) ==
    IF e.main # None /\ Vacant(e, m)
    THEN [map |-> m, ret |-> e.main, calls |-> 1, panic |-> FALSE]
    ELSE [InnerOrInsert(e, m, Box(e.ty, v)) EXCEPT !.calls = 1]

\* Entry::or_insert_with: v is what the closure returns when it is called
EntryOrInsertWith(e, m, v) ==
    IF e.main # None /\ Vacant(e, m)
    THEN [map |-> m, ret |-> e.main, calls |-> 0, panic |-> FALSE]
    ELSE [InnerOrInsert(e, m, Box(e.ty, v)) EXCEPT !.calls = IF Vacant(e, m) THEN 1 ELSE 0]

\* Entry::or_default
EntryOrDefault(e, m) ==
    IF e.main # None
    THEN [map |-> m, ret |-> e.main, calls |-> 0, panic |-> FALSE]
    ELSE InnerOrInsert(e, m, Box(e.ty, DefaultVal))

\* an and_modify that applies f to a copy of the value
EntryAndModifyCopy(e, m, f) ==
    [map |-> m, ret |-> None, calls |-> IF Vacant(e, m) THEN 0 ELSE 1, panic |-> FALSE]

\* Entry::and_modify: f is applied in place to an occupied slot
EntryAndModify(e, m, f) ==
    IF Vacant(e, m)
    THEN [map |-> m, ret |-> None, calls |-> 0, panic |-> FALSE]
    ELSE LET old == Downcast(m[<<e.ty, e.name>>], e.ty)
         IN  IF old = None
             THEN [map |-> m, ret |-> None, calls |-> 0, panic |-> TRUE]
             ELSE [map |-> [m EXCEPT ![<<e.ty, e.name>>] = Box(e.ty, f[old])],
                   ret |-> None, calls |-> 1, panic |-> FALSE]

\* an and_modify that keeps the inherited value in the view it returns
EntryKeepsMain(e) == [e EXCEPT !.chained = TRUE]

\* the Entry view and_modify returns
EntryAfterModify(e) == [e EXCEPT !.main = None, !.chained = TRUE]

(* ---------------------------- operations ------------------------------- *)
\* the effect of an Entry method with outcome r on the store its cursor is in
Resolve(r) ==
    /\ SetMap(entry.ctx, r.map)
    /\ ret' = r.ret
    /\ calls' = r.calls
    /\ panicked' = r.panic

\* MainContext::sub; the new context takes the lowest free identity
Sub(s) ==
    /\ Tick
    /\ last' = "sub"
    /\ ForgetAll(s)
    /\ MarkInserted(s, FALSE)
    /\ Unwrite(s)
    /\ ~alive[s]
    /\ \A t \in SubIds : t < s => alive[t]
    /\ entry.ctx # Main
    /\ alive' = [alive EXCEPT ![s] = TRUE]
    /\ subs' = [subs EXCEPT ![s] = EmptyMap]
    /\ ret' = None /\ calls' = 0
    /\ UNCHANGED <<root, entry, panicked>>

\* a SubContext goes out of scope
DropSub(s) ==
    /\ Tick
    /\ last' = "drop"
    /\ ForgetAll(s)
    /\ MarkInserted(s, FALSE)
    /\ Unwrite(s)
    /\ alive[s]
    /\ entry.ctx # s
    /\ alive' = [alive EXCEPT ![s] = FALSE]
    /\ subs' = [subs EXCEPT ![s] = EmptyMap]
    /\ ret' = None /\ calls' = 0
    /\ UNCHANGED <<root, entry, panicked>>

\* MainContext::get / get_named
GetMain(ty, n) ==
    /\ Tick
    /\ last' = "get"
    /\ UNCHANGED <<resolved, inserted, lineage>>
    /\ CanRead(Main)
    /\ ret' = MainGet(ty, n)
    /\ calls' = 0
    /\ UNCHANGED <<root, subs, alive, entry, panicked>>

\* SubContext::get / get_named
GetSub(s, ty, n) ==
    /\ Tick
    /\ last' = "get"
    /\ UNCHANGED <<resolved, inserted, lineage>>
    /\ CanRead(s)
    /\ ret' = SubGet(s, ty, n)
    /\ calls' = 0
    /\ UNCHANGED <<root, subs, alive, entry, panicked>>

\* MainContext::insert / insert_named (and with / with_named, which drop the
\* result): returns the displaced value
MainInsert(ty, n, v) ==
    /\ Tick
    /\ last' = "insert"
    /\ CanMut(Main)
    /\ v \in ValuesOf(ty)
    /\ root' = MapInsert(root, ty, n, v)
    /\ ret' = Displaced(root, ty, n)
    /\ calls' = 0
    /\ Forget(Main, ty, n)
    /\ Wrote(Main, ty, n)
    /\ UNCHANGED inserted
    /\ UNCHANGED <<subs, alive, entry, panicked>>

\* SubContext::insert / insert_named: writes the local store only
SubInsert(s, ty, n, v) ==
    /\ Tick
    /\ last' = "insert"
    /\ CanMut(s)
    /\ v \in ValuesOf(ty)
    /\ subs' = [subs EXCEPT ![s] = MapInsert(subs[s], ty, n, v)]
    /\ ret' = Displaced(subs[s], ty, n)
    /\ calls' = 0
    /\ Forget(s, ty, n)
    /\ Wrote(s, ty, n)
    /\ MarkInserted(s, TRUE)
    /\ UNCHANGED <<root, alive, entry, panicked>>

\* MainContext::entry / entry_named
MainEntry(ty, n) ==
    /\ Tick
    /\ last' = "entry"
    /\ UNCHANGED <<resolved, inserted, lineage>>
    /\ entry = NoEntry
    /\ CanMut(Main)
    /\ entry' = MainEntryNew(ty, n)
    /\ ret' = None /\ calls' = 0
    /\ UNCHANGED <<root, subs, alive, panicked>>

\* SubContext::entry / entry_named
SubEntry(s, ty, n) ==
    /\ Tick
    /\ last' = "entry"
    /\ UNCHANGED <<resolved, inserted, lineage>>
    /\ entry = NoEntry
    /\ CanMut(s)
    /\ entry' = SubEntryNew(s, ty, n)
    /\ ret' = None /\ calls' = 0
    /\ UNCHANGED <<root, subs, alive, panicked>>

\* Entry::or_insert(d) consumes the view
OrInsert(d) ==
    /\ Tick
    /\ last' = IF entry.chained THEN "and_modify.or_insert" ELSE "or_insert"
    /\ UNCHANGED <<resolved, inserted, lineage>>
    /\ entry # NoEntry
    /\ d \in ValuesOf(entry.ty)
    /\ Resolve(EntryOrInsert(entry, CtxMap(entry.ctx), d))
    /\ entry' = NoEntry
    /\ UNCHANGED alive

\* Entry::or_insert_with(|| v) consumes the view
OrInsertWith(v) ==
    /\ Tick
    /\ last' = IF entry.chained THEN "and_modify.or_insert_with" ELSE "or_insert_with"
    /\ entry # NoEntry
    /\ v \in ValuesOf(entry.ty)
    /\ Resolve(EntryOrInsertWith(entry, CtxMap(entry.ctx), v))
    /\ IF entry.chained
       THEN UNCHANGED resolved
       ELSE Record(entry.ctx, entry.ty, entry.name, ret')
    /\ IF entry.chained
       THEN UNCHANGED lineage
       ELSE Resolved(entry.ctx, entry.ty, entry.name, ret')
    /\ UNCHANGED inserted
    /\ entry' = NoEntry
    /\ UNCHANGED alive

\* Entry::or_default() consumes the view
OrDefault ==
    /\ Tick
    /\ last' = IF entry.chained THEN "and_modify.or_default" ELSE "or_default"
    /\ UNCHANGED <<resolved, inserted, lineage>>
    /\ entry # NoEntry
    /\ Resolve(EntryOrDefault(entry, CtxMap(entry.ctx)))
    /\ entry' = NoEntry
    /\ UNCHANGED alive

\* Entry::and_modify(f) consumes the view and returns a new one
AndModify(f) ==
    /\ Tick
    /\ last' = "and_modify"
    /\ entry # NoEntry
    /\ Touch(entry.ctx, entry.ty, entry.name)
    /\ Wrote(entry.ctx, entry.ty, entry.name)
    /\ UNCHANGED inserted
    /\ f \in Modifiers(entry.ty)
    /\ Resolve(EntryAndModify(entry, CtxMap(entry.ctx), f))
    /\ entry' = EntryAfterModify(entry)
    /\ UNCHANGED alive

\* the view is dropped without being resolved
DropEntry ==
    /\ Tick
    /\ last' = "drop_entry"
    /\ UNCHANGED <<resolved, inserted, lineage>>
    /\ entry # NoEntry
    /\ entry' = NoEntry
    /\ ret' = None /\ calls' = 0
    /\ UNCHANGED <<root, subs, alive, panicked>>

\* <Uuid as Builder>::build / <Uuid as NamedBuilder>::build_with_name on
\* context c: entry(..).or_insert_with(Uuid::new_v4), v being the new uuid
BuildUuid(c, n, v) ==
    /\ Tick
    /\ last' = "build"
    /\ entry = NoEntry
    /\ CanMut(c)
    /\ v \in ValuesOf("Uuid")
    /\ LET e == IF c = Main THEN MainEntryNew("Uuid", n) ELSE SubEntryNew(c, "Uuid", n)
           r == EntryOrInsertWith(e, CtxMap(c), v)
       IN  /\ SetMap(c, r.map)
           /\ ret' = r.ret
           /\ calls' = r.calls
           /\ panicked' = r.panic
           /\ Record(c, "Uuid", n, r.ret)
           /\ Resolved(c, "Uuid", n, r.ret)
    /\ UNCHANGED <<alive, entry, inserted>>

Next ==
    \/ \E s \in SubIds : Sub(s)
    \/ \E s \in SubIds : DropSub(s)
    \/ \E <<ty, n>> \in Keys : GetMain(ty, n)
    \/ \E s \in SubIds, <<ty, n>> \in Keys : GetSub(s, ty, n)
    \/ \E <<ty, n>> \in Keys : \E v \in ValuesOf(ty) : MainInsert(ty, n, v)
    \/ \E s \in SubIds, <<ty, n>> \in Keys : \E v \in ValuesOf(ty) : SubInsert(s, ty, n, v)
    \/ \E <<ty, n>> \in Keys : MainEntry(ty, n)
    \/ \E s \in SubIds, <<ty, n>> \in Keys : SubEntry(s, ty, n)
    \/ \E d \in ValuesOf(entry.ty) : OrInsert(d)
    \/ \E v \in ValuesOf(entry.ty) : OrInsertWith(v)
    \/ OrDefault
    \/ \E f \in Modifiers(entry.ty) : AndModify(f)
    \/ DropEntry
    \/ \E c \in Ctxs, n \in NameOpts : \E v \in ValuesOf("Uuid") : BuildUuid(c, n, v)

\* a new, empty MainContext
Init == Start /\ track = "none"
Spec == Init /\ [][Next]_vars

\* the same program, keeping the history of or_insert_with resolutions
InitShare == Start /\ track = "resolved"
SpecShare == InitShare /\ [][Next]_vars

\* the same program, keeping the history of insert calls on derived contexts
InitShadow == Start /\ track = "inserted"
SpecShadow == InitShadow /\ [][Next]_vars

\* the same program, keeping the history of the resolutions of one key over the
\* root and all its derived contexts
InitLineage == Start /\ track = "lineage"
SpecLineage == InitLineage /\ [][Next]_vars

(* ---------------------------- properties ------------------------------- *)
\* the Entry view in hand is the one of context c at key (ty, n)
At(c, ty, n) == entry.ctx = c /\ entry.ty = ty /\ entry.name = n

\* the store of context c after the step
NewMap(c) == IF c = Main THEN root' ELSE subs'[c]

\* the only occupied slot of map m is the one at key k
OnlySlot(m, k) == m[k] # Absent /\ \A k2 \in Keys \ {k} : m[k2] = Absent

\* C1: a derived context just created reads the root's value c at every key the
\* root holds; when the derived context inserts d # c at such a key, its own get
\* returns d afterwards and the root's get still returns c.
C1_Isolation ==
    [][last' \in {"sub", "insert"} => \A s \in SubIds, <<ty, n>> \in Keys :
          /\ (Sub(s) /\ MainGet(ty, n) # None) => SubGet(s, ty, n)' = MainGet(ty, n)
          /\ \A d \in ValuesOf(ty) :
                (SubInsert(s, ty, n, d) /\ MainGet(ty, n) # None /\ MainGet(ty, n) # d)
                => (SubGet(s, ty, n)' = d /\ MainGet(ty, n)' = MainGet(ty, n))]_vars

\* C1 happens: the last operation inserted into a derived context, at the one
\* key it holds, a value other than the one the root holds there
C1_Witness ==
    /\ last = "insert"
    /\ \E s \in SubIds, <<ty, n>> \in Keys :
          /\ alive[s]
          /\ OnlySlot(subs[s], <<ty, n>>)
          /\ MainGet(ty, n) # None
          /\ SubGet(s, ty, n) # MainGet(ty, n)

\* C2: no step taken while a derived context exists (its insert, entry,
\* and_modify, or_insert, or_insert_with, or_default, build, or its drop) changes
\* any slot of the root: the root is as it was when the context was created.
C2_RootUnchanged ==
    [][(\E s \in SubIds : alive[s]) => root' = root]_vars

\* C2 happens: a derived context has just filled a local slot through an entry
\* while the root holds other keys
C2_Witness ==
    /\ last \in {"or_insert", "or_insert_with", "or_default", "and_modify.or_insert"}
    /\ root # EmptyMap
    /\ \E s \in SubIds, k \in Keys :
          alive[s] /\ subs[s][k] # Absent /\ subs[s][k].val = ret /\ root[k] = Absent

\* C3: on a derived context whose local store has no slot for K while the root
\* holds r at K, entry(K).or_insert(d), or_insert_with(|| d) and or_default()
\* return r, call no closure, and leave the local store and the root as they were.
C3_RootSatisfied ==
    [][entry # NoEntry => \A s \in SubIds, <<ty, n>> \in Keys :
          ( /\ At(s, ty, n)
            /\ ~entry.chained
            /\ subs[s][<<ty, n>>] = Absent
            /\ MainGet(ty, n) # None
            /\ (OrDefault \/ \E d \in ValuesOf(ty) : OrInsert(d) \/ OrInsertWith(d)) )
          => ( /\ ret' = MainGet(ty, n)
               /\ calls' = 0
               /\ subs' = subs
               /\ root' = root )]_vars

\* C3 happens: or_insert has just returned the value of the only key the root
\* holds, to a derived context whose local store is empty
C3_Witness ==
    /\ last = "or_insert"
    /\ \E s \in SubIds, k \in Keys :
          /\ alive[s]
          /\ subs[s] = EmptyMap
          /\ OnlySlot(root, k)
          /\ ret = root[k].val
          /\ ret # DefaultVal

\* get / get_named on context c
CtxGet(c, ty, n) == IF c = Main THEN MainGet(ty, n) ELSE SubGet(c, ty, n)

\* the step is entry_named("person").or_insert_with(..) for a Uuid on context c,
\* written out or made by the builder
ResolvesWatched(c) ==
    \/ At(c, Watched[1], Watched[2]) /\ ~entry.chained
          /\ \E v \in ValuesOf(Watched[1]) : OrInsertWith(v)
    \/ \E v \in ValuesOf("Uuid") : BuildUuid(c, Watched[2], v)

\* C4 as stated: on one context, a resolution entry_named(N).or_insert_with(gen)
\* returns what the resolution before it returned, whenever no insert to that key
\* came in between.
C4_SharedUnlessInsert ==
    [][last' \in {"or_insert_with", "build"} => \A c \in Ctxs :
          (ResolvesWatched(c) /\ resolved[c].val # None) => ret' = resolved[c].val]_vars

\* C4 amended: on one context, a resolution entry_named(N).or_insert_with(gen)
\* returns what the resolution before it returned, whenever neither an insert to
\* that key nor an and_modify on that key came in between; the first of them
\* returns the value the context already shows at the key, if there is one.
C4_SharedUnlessWritten ==
    [][last' \in {"or_insert_with", "build"} => \A c \in Ctxs :
          /\ (ResolvesWatched(c) /\ resolved[c].val # None /\ ~resolved[c].mod)
             => ret' = resolved[c].val
          /\ (ResolvesWatched(c) /\ resolved[c].val = None
                /\ CtxGet(c, Watched[1], Watched[2]) # None)
             => (ret' = CtxGet(c, Watched[1], Watched[2]) /\ calls' = 0)]_vars

\* C4 happens: a second resolution of the key has just returned, with no insert
\* and no and_modify since the first
C4_Witness ==
    /\ last \in {"or_insert_with", "build"}
    /\ \E c \in Ctxs : resolved[c].again /\ ~resolved[c].mod /\ resolved[c].val = ret

\* C5: get(T, N) right after insert(T, N, v) returns v, on the root and on a
\* derived context, with and without a name.
C5_RoundTrip ==
    [][last' = "insert" => \A <<ty, n>> \in Keys : \A v \in ValuesOf(ty) :
          /\ MainInsert(ty, n, v) => MainGet(ty, n)' = v
          /\ \A s \in SubIds : SubInsert(s, ty, n, v) => SubGet(s, ty, n)' = v]_vars

\* C5 happens: a derived context has just inserted, under a name, a value other
\* than the one the root holds under that name
C5_Witness ==
    /\ last = "insert"
    /\ \E s \in SubIds, <<ty, n>> \in Keys :
          /\ n \in Names
          /\ alive[s]
          /\ OnlySlot(subs[s], <<ty, n>>)
          /\ MainGet(ty, n) # None
          /\ subs[s][<<ty, n>>].val # MainGet(ty, n)

\* C6: on the root, insert(T, N, v2) returns Some(v1) when the store holds v1 at
\* (T, N) and None when the key is absent, and get(T, N) returns v2 afterwards.
C6_Overwrite ==
    [][last' = "insert" => \A <<ty, n>> \in Keys : \A v2 \in ValuesOf(ty) :
          MainInsert(ty, n, v2)
          => ( /\ root[<<ty, n>>] = Absent => ret' = None
               /\ root[<<ty, n>>] # Absent => ret' = root[<<ty, n>>].val
               /\ MainGet(ty, n)' = v2 )]_vars

\* C6 happens: an insert on the root has just displaced v1 by another value v2
C6_Witness ==
    /\ last = "insert"
    /\ \A s \in SubIds : ~alive[s]
    /\ ret # None
    /\ \E k \in Keys : OnlySlot(root, k) /\ root[k].val # ret

\* C7: entry(T, N).or_insert_with(f) calls f at most once; not at all when the
\* slot is occupied; and on a derived context not at all when only the root
\* holds the key.
C7_LazyDefault ==
    [][last' \in {"or_insert_with", "and_modify.or_insert_with", "build"} =>
       \A c \in Ctxs, <<ty, n>> \in Keys : \A v \in ValuesOf(ty) :
          /\ (At(c, ty, n) /\ OrInsertWith(v))
             => ( /\ calls' <= 1
                  /\ CtxMap(c)[<<ty, n>>] # Absent => calls' = 0
                  /\ (c # Main /\ ~entry.chained /\ MainGet(ty, n) # None)
                     => calls' = 0 )
          /\ (ty = "Uuid" /\ BuildUuid(c, n, v))
             => (calls' <= 1 /\ (CtxGet(c, ty, n) # None => calls' = 0))]_vars

\* C7 happens: or_insert_with on a derived context with an empty local store has
\* just returned the value of the root's only key without calling f
C7_Witness ==
    /\ last = "or_insert_with"
    /\ calls = 0
    /\ \E s \in SubIds, k \in Keys :
          alive[s] /\ subs[s] = EmptyMap /\ OnlySlot(root, k) /\ ret = root[k].val

C9_DefaultIsOrInsert ==
    [][entry # NoEntry => \A c \in Ctxs, <<ty, n>> \in Keys :
          (At(c, ty, n) /\ OrDefault)
          => ( /\ ret' = EntryOrInsert(entry, CtxMap(c), DefaultVal).ret
               /\ NewMap(c) = EntryOrInsert(entry, CtxMap(c), DefaultVal).map )]_vars

\* C10: a derived context on which insert was never called has no local slot
\* for a key the root holds, and its get returns the root's value for that key.
C10_NoShadowWithoutInsert ==
    \A s \in SubIds, <<ty, n>> \in Keys :
        (alive[s] /\ ~inserted[s] /\ root[<<ty, n>>] # Absent)
        => (subs[s][<<ty, n>>] = Absent /\ SubGet(s, ty, n) = MainGet(ty, n))

\* C11 as stated: every resolution entry_named(N).or_insert_with(gen) of one key,
\* on the root or on any context derived from it, returns what the resolution
\* before it, on whichever of these contexts, returned.
C11_LineageConverges ==
    [][last' \in {"or_insert_with", "build"} => \A c \in Ctxs :
          (ResolvesWatched(c) /\ lineage.any # None) => ret' = lineage.any]_vars

\* C11 amended: once the root holds the key, every resolution
\* entry_named(N).or_insert_with(gen) made on the root, or on a derived context
\* on which neither insert nor and_modify was called at the key, returns the
\* value the root holds, which is what the resolution before it returned unless
\* the root's slot was written by insert or and_modify in between; no closure runs.
C11_LineageConvergesOnRoot ==
    [][last' \in {"or_insert_with", "build"} => \A c \in Ctxs :
          (ResolvesWatched(c) /\ c \notin lineage.written
             /\ MainGet(Watched[1], Watched[2]) # None)
          => ( /\ ret' = MainGet(Watched[1], Watched[2])
               /\ calls' = 0
               /\ lineage.shared # None => ret' = lineage.shared )]_vars

\* C11 happens: the second of two sibling derived contexts has just resolved the
\* key to the value the root holds, after the first one did, both with empty
\* local stores
C11_Witness ==
    /\ last \in {"or_insert_with", "build"}
    /\ \A s \in SubIds : alive[s] /\ subs[s] = EmptyMap
    /\ lineage.written = {}
    /\ lineage.shared # None
    /\ lineage.shared = ret
    /\ root[Watched] # Absent
    /\ ret = root[Watched].val
    /\ ret # DefaultVal

\* get returns after the step what it returned before, at every key, on the root
\* and on every derived context but s
OthersKept(s) ==
    \A <<ty, n>> \in Keys :
        /\ MainGet(ty, n)' = MainGet(ty, n)
        /\ \A t \in SubIds \ {s} : SubGet(t, ty, n)' = SubGet(t, ty, n)

\* C12: an insert, an entry, an Entry method or a build on one derived context
\* leaves get as it was, at every key, on every other derived context and on the
\* root.
C12_SiblingsIndependent ==
    [][\A s \in SubIds :
          IF last' = "insert"
          THEN \A <<ty, n>> \in Keys : \A v \in ValuesOf(ty) :
                  SubInsert(s, ty, n, v) => OthersKept(s)
          ELSE IF last' = "build"
          THEN \A n \in NameOpts : \A v \in ValuesOf("Uuid") :
                  BuildUuid(s, n, v) => OthersKept(s)
          ELSE IF last' = "entry"
          THEN \A <<ty, n>> \in Keys : SubEntry(s, ty, n) => OthersKept(s)
          ELSE (entry.ctx = s /\ entry' # entry) => OthersKept(s)]_vars

\* C12 happens: an Entry method has just filled a slot of one derived context at
\* a key that neither its sibling nor the root holds
C12_Witness ==
    /\ last \in {"or_insert", "or_insert_with", "or_default", "and_modify.or_insert"}
    /\ \A s \in SubIds : alive[s]
    /\ \E s \in SubIds, k \in Keys :
          /\ subs[s][k] # Absent
          /\ subs[s][k].val = ret
          /\ root[k] = Absent
          /\ \A t \in SubIds \ {s} : subs[t][k] = Absent /\ subs[t] # EmptyMap

\* C13: right after entry(K).or_insert(d), or_insert_with(f) or or_default()
\* returns x on a context, get(K) on that context returns x; with an occupied
\* local slot x is the local value, whatever the root holds.
C13_EntryAgreesWithGet ==
    [][entry # NoEntry => \A c \in Ctxs, <<ty, n>> \in Keys :
          ( /\ At(c, ty, n)
            /\ ~entry.chained
            /\ (OrDefault \/ \E d \in ValuesOf(ty) : OrInsert(d) \/ OrInsertWith(d)) )
          => ( /\ ret' = CtxGet(c, ty, n)'
               /\ CtxMap(c)[<<ty, n>>] # Absent => ret' = CtxMap(c)[<<ty, n>>].val )]_vars

\* C14: on a derived context, at a key that neither its local store nor the root
\* holds, or_insert(d), or_insert_with(|| d) and or_default() return the default
\* and store it in the local slot only: the derived get returns it afterwards, the
\* root's get still returns nothing, and or_insert_with called its closure once.
C14_BothVacant ==
    [][entry # NoEntry => \A s \in SubIds, <<ty, n>> \in Keys :
          (At(s, ty, n) /\ subs[s][<<ty, n>>] = Absent /\ root[<<ty, n>>] = Absent)
          => \A d \in ValuesOf(ty) :
                /\ ((OrInsert(d) \/ OrInsertWith(d) \/ (OrDefault /\ d = DefaultVal))
                    => ( /\ ret' = d
                         /\ subs' = [subs EXCEPT ![s] = MapInsert(subs[s], ty, n, d)]
                         /\ root' = root
                         /\ SubGet(s, ty, n)' = d
                         /\ MainGet(ty, n)' = None ))
                /\ (OrInsertWith(d) => calls' = 1)]_vars

\* C14 happens: or_insert_with has just called its closure and stored the value in
\* the one local slot of a derived context whose root is empty
C14_Witness ==
    /\ last = "or_insert_with"
    /\ calls = 1
    /\ root = EmptyMap
    /\ ret # DefaultVal
    /\ \E s \in SubIds, k \in Keys :
          alive[s] /\ OnlySlot(subs[s], k) /\ subs[s][k].val = ret

KeysOf(m) == {k \in Keys : m[k] # Absent}

\* C16: and_modify(f) on an entry whose slot holds v calls f once, leaves f(v) in
\* that slot and every other slot and the set of keys as they were, so that get
\* returns f(v); or_insert(d) chained after and_modify on an occupied slot returns
\* the value in the slot and stores nothing.
C16_ModifyOccupied ==
    [][entry # NoEntry => \A c \in Ctxs, <<ty, n>> \in Keys :
          (At(c, ty, n) /\ CtxMap(c)[<<ty, n>>] # Absent)
          => ( /\ \A f \in Modifiers(ty) :
                    AndModify(f)
                    => ( /\ calls' = 1
                         /\ NewMap(c) = MapInsert(CtxMap(c), ty, n, f[CtxMap(c)[<<ty, n>>].val])
                         /\ CtxGet(c, ty, n)' = f[CtxMap(c)[<<ty, n>>].val]
                         /\ Cardinality(KeysOf(NewMap(c))) = Cardinality(KeysOf(CtxMap(c)))
                         /\ Vacant(entry', NewMap(c)) = FALSE )
               /\ \A d \in ValuesOf(ty) :
                    (entry.chained /\ OrInsert(d))
                    => ( /\ ret' = CtxMap(c)[<<ty, n>>].val
                         /\ NewMap(c) = CtxMap(c) ) )]_vars

\* C16 happens: and_modify has just applied its closure to the value in the only
\* slot of the root
C16_Witness ==
    /\ last = "and_modify"
    /\ calls = 1
    /\ entry.ctx = Main
    /\ OnlySlot(root, <<entry.ty, entry.name>>)

\* what a write on context c at key (ty, n) must leave alone, and what a
\* resolution there must return
OtherKeysKept(c, ty, n) ==
    /\ \A c2 \in Ctxs, k2 \in Keys :
          (c2 # c \/ k2 # <<ty, n>>) => NewMap(c2)[k2] = CtxMap(c2)[k2]
    /\ \A m \in NamesOf(ty) \ {n} : CtxGet(c, ty, m)' = CtxGet(c, ty, m)
    /\ ( /\ c # Main
         /\ CtxMap(c)[<<ty, n>>] = Absent
         /\ last' \in {"or_insert", "or_insert_with", "or_default", "build"} )
       => ( /\ root[<<ty, n>>] # Absent => ret' = root[<<ty, n>>].val
            /\ root[<<ty, n>>] = Absent
               => ( /\ calls' = IF last' \in {"or_insert_with", "build"} THEN 1 ELSE 0
                    /\ NewMap(c)[<<ty, n>>] = Box(ty, ret') ) )

\* C17: an insert, an Entry method or a build on context c at key (T, N) leaves
\* every other slot of every store as it was, so that get at (T, M), M # N, with
\* or without a name, returns afterwards what it returned before, nothing if it
\* was nothing; and a resolution on a derived context whose local store lacks
\* (T, N) returns the root's value at (T, N) if the root holds that very key, and
\* otherwise the default, whatever the root holds for T under other names.
C17_KeysDisjoint ==
    [][IF last' = "insert"
       THEN \A <<ty, n>> \in Keys : \A v \in ValuesOf(ty) :
               /\ MainInsert(ty, n, v) => OtherKeysKept(Main, ty, n)
               /\ \A s \in SubIds : SubInsert(s, ty, n, v) => OtherKeysKept(s, ty, n)
       ELSE IF last' = "build"
       THEN \A c \in Ctxs, n \in NameOpts : \A v \in ValuesOf("Uuid") :
               BuildUuid(c, n, v) => OtherKeysKept(c, "Uuid", n)
       ELSE (entry # NoEntry /\ entry' # entry /\ last' # "drop_entry")
            => \A c \in Ctxs, <<ty, n>> \in Keys :
                  At(c, ty, n) => OtherKeysKept(c, ty, n)]_vars

\* C17 happens: a resolution on a derived context has just stored a value in the
\* local slot of a key the root lacks, while the root holds another value for the
\* same type under another name or under none
C17_Witness ==
    /\ last \in {"or_insert", "or_insert_with", "or_default", "build"}
    /\ \E s \in SubIds, <<ty, n>> \in Keys :
          /\ alive[s]
          /\ OnlySlot(subs[s], <<ty, n>>)
          /\ subs[s][<<ty, n>>].val = ret
          /\ root[<<ty, n>>] = Absent
          /\ \E m \in NamesOf(ty) \ {n} :
                root[<<ty, m>>] # Absent /\ root[<<ty, m>>].val # ret

\* C18: in every state the slot under key (T, N) of the root and of every derived
\* context, if there is one, holds a value of type T, so that get returns it; and
\* no downcast has failed.
C18_TypeConsistent ==
    /\ ~panicked
    /\ \A c \in Ctxs, <<ty, n>> \in Keys :
          CtxMap(c)[<<ty, n>>] # Absent
          => ( /\ CtxMap(c)[<<ty, n>>].ty = ty
               /\ CtxMap(c)[<<ty, n>>].val \in ValuesOf(ty)
               /\ MapGet(CtxMap(c), ty, n) = CtxMap(c)[<<ty, n>>].val )

\* C18 happens: a build has just stored a uuid under a name in a derived context
\* that holds a PetType too, while the root holds a uuid without a name
C18_Witness ==
    /\ last = "build"
    /\ ~panicked
    /\ root[<<"Uuid", NoName>>] # Absent
    /\ \E s \in SubIds, n \in Names :
          /\ alive[s]
          /\ subs[s][<<"PetType", NoName>>] # Absent
          /\ subs[s][<<"Uuid", n>>] = Box("Uuid", ret)

\* C19 as stated: insert on a derived context returns the value get returned for
\* the key before it, whenever get returned one, be it local or the root's.
C19_ReturnsVisible ==
    [][last' = "insert" => \A s \in SubIds, <<ty, n>> \in Keys : \A v \in ValuesOf(ty) :
          (SubInsert(s, ty, n, v) /\ SubGet(s, ty, n) # None)
          => ret' = SubGet(s, ty, n)]_vars

\* C19 amended: insert on a derived context returns the value its local store
\* held at the key, if it held one; when the key was visible only through the
\* root, or not at all, it returns nothing; the root keeps what it holds.
C19_ReturnsLocal ==
    [][last' = "insert" => \A s \in SubIds, <<ty, n>> \in Keys : \A v \in ValuesOf(ty) :
          SubInsert(s, ty, n, v)
          => ( /\ subs[s][<<ty, n>>] # Absent => ret' = subs[s][<<ty, n>>].val
               /\ subs[s][<<ty, n>>] = Absent => ret' = None
               /\ root' = root )]_vars

\* C19 happens: insert on a derived context has just returned nothing at a key
\* the root holds, and the derived context now holds another value there
C19_Witness ==
    /\ last = "insert"
    /\ ret = None
    /\ \E s \in SubIds, k \in Keys :
          /\ alive[s]
          /\ OnlySlot(subs[s], k)
          /\ root[k] # Absent
          /\ subs[s][k] # root[k]
====
